---- MODULE Spec2Model ----
(***************************************************************************)
(* Model of app.py (QUIZ MASTER PRO): the quiz-generation engine           *)
(* generate_quiz and the Streamlit session state machine around it         *)
(* (home, quiz, scorecard, review_mode pages, sidebar, history file).      *)
(*                                                                         *)
(* Text is modelled as a sequence of tokens.  The tokens are the pieces    *)
(* the code's string operations tell apart: the markdown fence marker, the  *)
(* word "json" that follows it in a json fence, white space, prose words,  *)
(* the JSON punctuation "[", "]", "," and whole JSON objects.              *)
(***************************************************************************)
EXTENDS Integers, Sequences, FiniteSets, TLC

VARIABLES
    \* ---- st.session_state (app.py:155-165, 306-308)
    page,            \* "home" | "quiz" | "scorecard" | "review_mode"
    quiz_data,       \* sequence of question records
    user_answers,    \* function: answer key -> chosen option label
    current_index,   \* 0-based index of the question shown
    current_topic,   \* topic of the quiz in progress
    saved,           \* TRUE iff the key 'saved' is in st.session_state
    history,         \* st.session_state.history, loaded once per session
    \* ---- the world around the session
    history_file,    \* quiz_history.json, newest entry first
    run,             \* how the last script run ended: "ok" | "error" | "exception"
    last_write,      \* the history write of the last script run: "none" | "ok" | "failed"
    \* ---- one call of generate_quiz, step by step
    pc,              \* "Building" | "Sent" | "Success" | "Failed"
    previous_questions, \* the call's previous_questions argument
    input_type,      \* the call's input_type argument
    context_len,     \* length of the call's context_data (0: None or empty)
    remote,          \* what the remote service answers to the 1st, 2nd, ... call
    payload,         \* content_payload as built by the call
    result           \* what the call did: value or exception, calls, waits

vars == <<page, quiz_data, user_answers, current_index, current_topic, saved,
          history, history_file, run, last_write,
          pc, previous_questions, input_type, context_len, remote, payload, result>>

sessionVars == <<page, quiz_data, user_answers, current_index, current_topic,
                 saved, history, history_file, run, last_write>>

engineVars == <<pc, previous_questions, input_type, context_len, remote,
                payload, result>>

----------------------------------------------------------------------------
(* Bounds of the model *)

\* longest previous_questions list tried
MaxPrior == 80
\* number of answers the remote service has ready for successive calls
ScriptLen == 3
\* most records in one generated array
MaxRecs == 1
\* longest quiz a session may grow to through Continue
MaxQuiz == 2
\* most entries a session may add to the history file
MaxSaves == 1

(* Program constants *)

\* previous_questions[-50:]
ExclusionBound == 50
\* context_data[:15000]
ContextBound == 15000

Min(a, b) == IF a < b THEN a ELSE b

----------------------------------------------------------------------------
(* Question records: the JSON objects the remote service may emit *)

Labels == {"A", "B"}

QuestionRecord(q, c) == [question |-> q, options |-> Labels, correct_option |-> c]

\* "o1", "o2": well-formed objects; "o3": correct_option is no option label
ObjTokens == {"o1", "o2", "o3"}

ObjOf(tok) ==
    CASE tok = "o1" -> QuestionRecord(1, "A")
      [] tok = "o2" -> QuestionRecord(2, "B")
      [] tok = "o3" -> QuestionRecord(3, "E")

\* the markdown fence marker (three backticks), the tag that follows it in an
\* opening json fence, and white space (blank or newline)
Fence == "FENCE"
JsonTag == "json"
WS == " "
IsWS(tok) == tok = WS

----------------------------------------------------------------------------
(* String operations of generate_quiz, app.py:151-152 *)

RECURSIVE RemoveFenceJson(_)
\* text.replace(FENCE + "json", ""): every fence marker directly followed by "json"
RemoveFenceJson(text) ==
    IF Len(text) = 0 THEN <<>>
    ELSE IF Len(text) >= 2 /\ text[1] = Fence /\ text[2] = JsonTag
         THEN RemoveFenceJson(SubSeq(text, 3, Len(text)))
         ELSE <<text[1]>> \o RemoveFenceJson(Tail(text))

\* text.replace(FENCE, "")
RemoveFence(text) == SelectSeq(text, LAMBDA tok : tok # Fence)

RECURSIVE LStrip(_)
LStrip(text) ==
    IF Len(text) > 0 /\ IsWS(text[1]) THEN LStrip(Tail(text)) ELSE text

RECURSIVE RStrip(_)
RStrip(text) ==
    IF Len(text) > 0 /\ IsWS(text[Len(text)])
    THEN RStrip(SubSeq(text, 1, Len(text) - 1)) ELSE text

\* str.strip()
Strip(text) == RStrip(LStrip(text))

\* response.text.replace(FENCE + "json", "").replace(FENCE, "").strip()
CleanText(text) == Strip(RemoveFence(RemoveFenceJson(text)))

ParseError == [ok |-> FALSE, shape |-> "none", items |-> <<>>]

RECURSIVE ParseItems(_)
\* the elements of a JSON array, after "[": obj ("," obj)* with no trailing comma;
\* <<FALSE, _>> when the tokens are no such list
ParseItems(toks) ==
    IF Len(toks) = 0 THEN <<FALSE, <<>>>>
    ELSE IF toks[1] \notin ObjTokens THEN <<FALSE, <<>>>>
    ELSE IF Len(toks) = 1 THEN <<TRUE, <<ObjOf(toks[1])>>>>
    ELSE IF toks[2] # "," THEN <<FALSE, <<>>>>
    ELSE LET rest == ParseItems(SubSeq(toks, 3, Len(toks)))
         IN  IF rest[1] THEN <<TRUE, <<ObjOf(toks[1])>> \o rest[2]>>
             ELSE <<FALSE, <<>>>>

\* json.loads(text) on texts whose values are objects and one-level arrays of
\* objects: white space between tokens is insignificant, the whole text must be
\* one value, anything else raises JSONDecodeError
JsonLoads(text) ==
    LET toks == SelectSeq(text, LAMBDA tok : ~IsWS(tok))
        n    == Len(toks)
    IN  IF n = 1 /\ toks[1] \in ObjTokens
        THEN [ok |-> TRUE, shape |-> "dict", items |-> <<ObjOf(toks[1])>>]
        ELSE IF n >= 2 /\ toks[1] = "[" /\ toks[n] = "]"
        THEN IF n = 2 THEN [ok |-> TRUE, shape |-> "list", items |-> <<>>]
             ELSE LET inner == ParseItems(SubSeq(toks, 2, n - 1))
                  IN  IF inner[1]
                      THEN [ok |-> TRUE, shape |-> "list", items |-> inner[2]]
                      ELSE ParseError
        ELSE ParseError

----------------------------------------------------------------------------
(* The remote generation call, model.generate_content (app.py:150) *)

RateLimit == [kind |-> "rate_limit", text |-> <<>>]
\* a response without text: response.text raises ValueError
Blocked   == [kind |-> "blocked", text |-> <<>>]
TextOutcome(t) == [kind |-> "text", text |-> t]

\* objects of one array, in order
ObjSeqs == UNION {[1..k -> ObjTokens] : k \in 0..MaxRecs}

RECURSIVE Interleave(_)
Interleave(objs) ==
    IF Len(objs) = 0 THEN <<>>
    ELSE IF Len(objs) = 1 THEN objs
    ELSE <<objs[1], ",", WS>> \o Interleave(Tail(objs))

ArrayText(objs) == <<"[">> \o Interleave(objs) \o <<"]">>
\* an array cut off before its closing bracket
TruncatedText(objs) == <<"[">> \o Interleave(objs)

Bodies ==
    {ArrayText(objs) : objs \in ObjSeqs}
    \cup {TruncatedText(objs) : objs \in ObjSeqs \ {<<>>}}
    \cup {<<"o1">>, <<"Sorry">>, <<>>}

OpenFence(f) ==
    CASE f = "json"  -> <<Fence, JsonTag, WS>>
      [] f = "plain" -> <<Fence, WS>>
      [] f = "none"  -> <<>>

CloseFence(f) == IF f = "none" THEN <<>> ELSE <<WS, Fence>>

\* the texts the remote service may answer with: a body, possibly inside a
\* markdown fence, possibly with prose before and after
ResponseTexts ==
    {pre \o OpenFence(f) \o body \o CloseFence(f) \o post :
        pre \in {<<>>, <<"Sure!", WS>>}, f \in {"none", "json", "plain"},
        body \in Bodies, post \in {<<>>, <<WS, "Done.">>}}

GoodText == ArrayText(<<"o1">>)

\* the service's answers to the first, second, ... call of one generate_quiz
Scripts ==
    {[i \in 1..ScriptLen |-> IF i = 1 THEN first ELSE rest[i - 1]] :
        first \in {RateLimit, Blocked} \cup {TextOutcome(t) : t \in ResponseTexts},
        rest \in [1..(ScriptLen - 1) -> {RateLimit, TextOutcome(GoodText)}]}

----------------------------------------------------------------------------
(* generate_quiz, app.py:105-152 *)

\* a slip in the slice: previous_questions[:50], the first questions, not the last
ExclusionListFirst(prev) == SubSeq(prev, 1, Min(Len(prev), ExclusionBound))

\* previous_questions[-50:]
ExclusionList(prev) ==
    LET n == Len(prev)
        first == IF n > ExclusionBound THEN n - ExclusionBound + 1 ELSE 1
    IN  SubSeq(prev, first, n)

\* content_payload as sent (app.py:108-148): the prompt text with its optional
\* parts, and the number of parts of the request (two when an image is attached)
BuildPayload(itype, ctxlen, prev) ==
    [ has_exclusion |-> Len(prev) > 0,
      exclusion     |-> IF Len(prev) > 0 THEN ExclusionList(prev) ELSE <<>>,
      context_chars |-> IF itype = "Text/PDF" /\ ctxlen > 0
                        THEN Min(ctxlen, ContextBound) ELSE 0,
      image_note    |-> itype = "Image" /\ ctxlen > 0,
      structure     |-> TRUE,
      parts         |-> IF itype = "Image" /\ ctxlen > 0 THEN 2 ELSE 1 ]

Raise(exc, calls, waits) ==
    [status |-> "raise", exc |-> exc, shape |-> "none", value |-> <<>>,
     calls |-> calls, waits |-> waits]

Return(parsed, calls, waits) ==
    [status |-> "return", exc |-> "none", shape |-> parsed.shape,
     value |-> parsed.items, calls |-> calls, waits |-> waits]

RECURSIVE RetryAny(_, _)
\* a retry loop around the call that retries after every failure, parse failures
\* included, with a wait before each retry
RetryAny(script, attempt) ==
    LET response == script[attempt]
        parsed == JsonLoads(CleanText(response.text))
    IN  IF response.kind = "text" /\ parsed.ok
        THEN Return(parsed, attempt, attempt - 1)
        ELSE IF attempt < Len(script) THEN RetryAny(script, attempt + 1)
        ELSE Raise(IF response.kind = "text" THEN "JSONDecodeError"
                   ELSE "ResourceExhausted", attempt, attempt - 1)

InvokeAndParseRetryAny(script) == RetryAny(script, 1)

\* app.py:150-152: one remote call; its failure, the failure of response.text
\* and the failure of json.loads all propagate to the caller
InvokeAndParse(script) ==
    LET response == script[1]
    IN  CASE response.kind = "rate_limit" -> Raise("ResourceExhausted", 1, 0)
          [] response.kind = "blocked"    -> Raise("ValueError", 1, 0)
          [] response.kind = "text" ->
                LET parsed == JsonLoads(CleanText(response.text))
                IN  IF parsed.ok THEN Return(parsed, 1, 0)
                    ELSE Raise("JSONDecodeError", 1, 0)

\* the whole call; the payload goes to the remote service, whose answer is the script
generate_quiz(itype, ctxlen, prev, script) == InvokeAndParse(script)

NoResult == [status |-> "none", exc |-> "none", shape |-> "none", value |-> <<>>,
             calls |-> 0, waits |-> 0]
NoPayload == [has_exclusion |-> FALSE, exclusion |-> <<>>, context_chars |-> 0,
              image_note |-> FALSE, structure |-> FALSE, parts |-> 0]

----------------------------------------------------------------------------
(* One call of generate_quiz as a state machine:                           *)
(* Building -> Sent -> Success | Failed                                    *)

\* previous_questions lists: n question ids, all distinct or repeating
PriorLists ==
    {[i \in 1..n |-> IF k = 1 THEN 100 + i ELSE i % 3] : n \in 0..MaxPrior, k \in 1..2}

\* the inputs tried: every prior list with each input type, and every script
EngineInputs ==
    {<<it, cl, prev, [i \in 1..ScriptLen |-> TextOutcome(GoodText)]>> :
        it \in {"Topic", "Text/PDF", "Image"}, cl \in {0, 20000}, prev \in PriorLists}
    \cup {<<"Topic", 0, prev, script>> :
        prev \in {<<>>, <<101, 102>>}, script \in Scripts}

SessionStart(hist) ==
    /\ page = "home"
    /\ quiz_data = <<>>
    /\ user_answers = {}
    /\ current_index = 0
    /\ current_topic = ""
    /\ saved = FALSE
    /\ history = hist
    /\ history_file = hist
    /\ run = "ok"
    /\ last_write = "none"

EngineInit ==
    /\ \E inp \in EngineInputs :
          /\ input_type = inp[1]
          /\ context_len = inp[2]
          /\ previous_questions = inp[3]
          /\ remote = inp[4]
    /\ pc = "Building"
    /\ payload = NoPayload
    /\ result = NoResult
    /\ SessionStart(<<>>)

\* app.py:106-148
Build ==
    /\ pc = "Building"
    /\ payload' = BuildPayload(input_type, context_len, previous_questions)
    /\ pc' = "Sent"
    /\ UNCHANGED <<previous_questions, input_type, context_len, remote, result>>
    /\ UNCHANGED sessionVars

\* app.py:150-152
Invoke ==
    /\ pc = "Sent"
    /\ result' = generate_quiz(input_type, context_len, previous_questions, remote)
    /\ pc' = IF result'.status = "return" THEN "Success" ELSE "Failed"
    /\ UNCHANGED <<previous_questions, input_type, context_len, remote, payload>>
    /\ UNCHANGED sessionVars

EngineNext == Build \/ Invoke

SpecEngine == EngineInit /\ [][EngineNext]_vars

----------------------------------------------------------------------------
(* The session: st.session_state and the pages, app.py:155-408.            *)
(* Every action is one click and the script run it triggers, the re-run    *)
(* after st.rerun() included.  current_input_type, current_context,        *)
(* current_difficulty and current_model only travel from Start Quiz into   *)
(* the payload of Continue and are left out.                               *)

\* user_answers is a dict; its keys are ints within a session and strings once
\* they have been through the JSON history file
IntKey(i, c) == [kind |-> "int", idx |-> i, choice |-> c]
StrKey(i, c) == [kind |-> "str", idx |-> i, choice |-> c]

\* answers.get(key): the choice, or "None"
Get(answers, kind, i) ==
    IF \E a \in answers : a.kind = kind /\ a.idx = i
    THEN (CHOOSE a \in answers : a.kind = kind /\ a.idx = i).choice
    ELSE "None"

\* answers.get(i) or answers.get(str(i))
AnswerOf(answers, i) ==
    IF Get(answers, "int", i) # "None" THEN Get(answers, "int", i)
    ELSE Get(answers, "str", i)

\* the score loop of the scorecard and of review mode
Score(questions, answers) ==
    Cardinality({i \in 0..(Len(questions) - 1) :
                    AnswerOf(answers, i) = questions[i + 1].correct_option})

\* json.dump writes every dict key as a string
DumpKeys(answers) == {StrKey(a.idx, a.choice) : a \in answers}

\* the entry save_quiz_to_history builds (the date is left out)
Entry(topic, questions, answers) ==
    [topic |-> topic, score |-> <<Score(questions, answers), Len(questions)>>,
     data |-> questions, user_answers |-> DumpKeys(answers)]

\* an entry a former session left in the history file
OldEntry == Entry("T0", <<ObjOf("o2")>>, {IntKey(0, "B")})

Topics == {"T1"}

\* what the remote service answers in a session: a rate-limit failure, an
\* array of up to MaxRecs records (the empty array included), a truncated array
SessionScripts ==
    {[i \in 1..ScriptLen |-> IF i = 1 THEN first ELSE RateLimit] :
        first \in {RateLimit, TextOutcome(TruncatedText(<<"o1">>))}
                  \cup {TextOutcome(ArrayText(objs)) :
                          objs \in UNION {[1..k -> {"o1", "o3"}] : k \in 0..MaxRecs}}}

Init ==
    /\ \E hist \in {<<>>, <<OldEntry>>} : SessionStart(hist)
    /\ pc = "Building"
    /\ previous_questions = <<>>
    /\ input_type = "Topic"
    /\ context_len = 0
    /\ remote = [i \in 1..ScriptLen |-> RateLimit]
    /\ payload = NoPayload
    /\ result = NoResult

\* the quiz page, app.py:257-259: q = questions[idx] raises IndexError
QuizRun(questions, idx) ==
    IF idx >= 0 /\ idx < Len(questions) THEN "ok" ELSE "exception"

\* the history file may take one more entry
SaveAllowed == saved \/ Len(history_file) < Len(history) + MaxSaves

\* the scorecard page up to its buttons, app.py:294-309, with
\* save_quiz_to_history (app.py:50-62) inline: the write may succeed, fail
\* before the file is touched (open) or fail part-way (json.dump), which leaves
\* a file load_history reads as []
ScorecardRun ==
    IF saved
    THEN /\ run' = "ok"
         /\ last_write' = "none"
         /\ UNCHANGED <<saved, history_file>>
    ELSE \/ /\ history_file' =
                  <<Entry(current_topic, quiz_data, user_answers)>> \o history_file
            /\ saved' = TRUE
            /\ run' = "ok"
            /\ last_write' = "ok"
         \/ /\ history_file' \in {history_file, <<>>}
            /\ run' = "exception"
            /\ last_write' = "failed"
            /\ UNCHANGED saved

\* sidebar, app.py:181-183
NewQuiz ==
    /\ page' = "home"
    /\ run' = "ok"
    /\ last_write' = "none"
    /\ UNCHANGED <<quiz_data, user_answers, current_index, current_topic, saved,
                   history, history_file>>
    /\ UNCHANGED engineVars

\* sidebar, app.py:186-193
HistoryClick(i) ==
    /\ i \in 1..Len(history)
    /\ quiz_data' = history[i].data
    /\ user_answers' = history[i].user_answers
    /\ current_index' = 0
    /\ page' = "review_mode"
    /\ run' = "ok"
    /\ last_write' = "none"
    /\ UNCHANGED <<current_topic, saved, history, history_file>>
    /\ UNCHANGED engineVars

\* any widget that only re-runs the script (the model selectbox, app.py:174;
\* the download buttons, app.py:322 and 390)
Rerun ==
    /\ SaveAllowed
    /\ CASE page = "scorecard" -> ScorecardRun
         [] page = "quiz" ->
               /\ run' = QuizRun(quiz_data, current_index)
               /\ last_write' = "none"
               /\ UNCHANGED <<saved, history_file>>
         [] OTHER ->
               /\ run' = "ok"
               /\ last_write' = "none"
               /\ UNCHANGED <<saved, history_file>>
    /\ UNCHANGED <<page, quiz_data, user_answers, current_index, current_topic,
                   history>>
    /\ UNCHANGED engineVars

\* home page, app.py:226-253
StartQuiz(topic, script) ==
    /\ page = "home"
    /\ IF topic = ""
       THEN /\ run' = "error"
            /\ UNCHANGED <<page, quiz_data, user_answers, current_index,
                           current_topic>>
       ELSE LET data == generate_quiz("Topic", 0, <<>>, script)
            IN  /\ current_topic' = topic
                /\ IF data.status = "return"
                   THEN /\ quiz_data' = data.value
                        /\ user_answers' = {}
                        /\ current_index' = 0
                        /\ page' = "quiz"
                        /\ run' = QuizRun(data.value, 0)
                   ELSE /\ run' = "error"
                        /\ UNCHANGED <<page, quiz_data, user_answers, current_index>>
    /\ last_write' = "none"
    /\ UNCHANGED <<saved, history, history_file>>
    /\ UNCHANGED engineVars

\* quiz page, app.py:273-283: the radio button
Answer(choice) ==
    /\ page = "quiz" /\ run = "ok"
    /\ choice \in quiz_data[current_index + 1].options
    /\ user_answers' =
          {a \in user_answers : ~(a.kind = "int" /\ a.idx = current_index)}
          \cup {IntKey(current_index, choice)}
    /\ run' = "ok"
    /\ last_write' = "none"
    /\ UNCHANGED <<page, quiz_data, current_index, current_topic, saved, history,
                   history_file>>
    /\ UNCHANGED engineVars

\* quiz page, app.py:279-281
Previous ==
    /\ page = "quiz" /\ run = "ok"
    /\ current_index > 0
    /\ current_index' = current_index - 1
    /\ run' = QuizRun(quiz_data, current_index')
    /\ last_write' = "none"
    /\ UNCHANGED <<page, quiz_data, user_answers, current_topic, saved, history,
                   history_file>>
    /\ UNCHANGED engineVars

\* quiz page, app.py:284-287
NextQuestion ==
    /\ page = "quiz" /\ run = "ok"
    /\ current_index < Len(quiz_data) - 1
    /\ current_index' = current_index + 1
    /\ run' = QuizRun(quiz_data, current_index')
    /\ last_write' = "none"
    /\ UNCHANGED <<page, quiz_data, user_answers, current_topic, saved, history,
                   history_file>>
    /\ UNCHANGED engineVars

\* quiz page, app.py:288-291, and the scorecard run that follows
Submit ==
    /\ page = "quiz" /\ run = "ok"
    /\ ~(current_index < Len(quiz_data) - 1)
    /\ SaveAllowed
    /\ page' = "scorecard"
    /\ ScorecardRun
    /\ UNCHANGED <<quiz_data, user_answers, current_index, current_topic, history>>
    /\ UNCHANGED engineVars

\* scorecard, app.py:315-318
StartFresh ==
    /\ page = "scorecard" /\ run # "exception"
    /\ page' = "home"
    /\ saved' = FALSE
    /\ run' = "ok"
    /\ last_write' = "none"
    /\ UNCHANGED <<quiz_data, user_answers, current_index, current_topic, history,
                   history_file>>
    /\ UNCHANGED engineVars

\* scorecard, app.py:330-349
Continue(script) ==
    /\ page = "scorecard" /\ run # "exception"
    /\ LET existing_qs == [i \in 1..Len(quiz_data) |-> quiz_data[i].question]
           new_data == generate_quiz("Topic", 0, existing_qs, script)
       IN  IF new_data.status = "return"
           THEN /\ Len(quiz_data) + Len(new_data.value) <= MaxQuiz
                /\ quiz_data' = quiz_data \o new_data.value
                /\ saved' = FALSE
                /\ current_index' = Len(existing_qs)
                /\ page' = "quiz"
                /\ run' = QuizRun(quiz_data', current_index')
           ELSE /\ run' = "error"
                /\ UNCHANGED <<page, quiz_data, current_index, saved>>
    /\ last_write' = "none"
    /\ UNCHANGED <<user_answers, current_topic, history, history_file>>
    /\ UNCHANGED engineVars

\* review mode, app.py:385-387
Back ==
    /\ page = "review_mode"
    /\ page' = "home"
    /\ run' = "ok"
    /\ last_write' = "none"
    /\ UNCHANGED <<quiz_data, user_answers, current_index, current_topic, saved,
                   history, history_file>>
    /\ UNCHANGED engineVars

Next ==
    \/ NewQuiz
    \/ \E i \in 1..Len(history) : HistoryClick(i)
    \/ Rerun
    \/ \E topic \in Topics \cup {""}, script \in SessionScripts : StartQuiz(topic, script)
    \/ \E choice \in Labels : Answer(choice)
    \/ Previous
    \/ NextQuestion
    \/ Submit
    \/ StartFresh
    \/ \E script \in SessionScripts : Continue(script)
    \/ Back

Spec == Init /\ [][Next]_vars

----------------------------------------------------------------------------
(* Properties of one generate_quiz call (checked under SpecEngine) *)

Terminal == {"Success", "Failed"}

\* what json.loads makes of the i-th answer of the script once it is cleaned
ParsedAnswer(i) == JsonLoads(CleanText(remote[i].text))

\* C1: when the first two attempts fail with a rate-limit failure and the third
\* succeeds, the call returns the third attempt's records after exactly two
\* backoff waits (none after the success).
C1_RetryThenSuccess ==
    (/\ pc \in Terminal
     /\ remote[1] = RateLimit /\ remote[2] = RateLimit
     /\ remote[3].kind = "text" /\ ParsedAnswer(3).ok)
    => (/\ result.status = "return"
        /\ result.value = ParsedAnswer(3).items
        /\ result.calls = 3
        /\ result.waits = 2)

\* C2: when every attempt fails with a rate-limit failure and the retry bound
\* is 3, the call issues exactly three remote calls and ends Failed.
C2_RetryExhaustion ==
    (/\ pc \in Terminal
     /\ \A i \in 1..3 : remote[i] = RateLimit)
    => (pc = "Failed" /\ result.status = "raise" /\ result.calls = 3)

\* a truncated array: an opening bracket that is never closed
TruncatedArray(text) ==
    /\ \E i \in 1..Len(text) : text[i] = "["
    /\ \A i \in 1..Len(text) : text[i] # "]"

\* C3: a malformed response (e.g. a truncated array) fails the call at once with
\* a parse failure: one remote call, no backoff wait, no retry.
C3_MalformedFailsImmediately ==
    pc \in Terminal =>
        /\ (remote[1].kind = "text" /\ TruncatedArray(remote[1].text))
              => result.exc = "JSONDecodeError"
        /\ result.exc = "JSONDecodeError"
              => (/\ pc = "Failed"
                  /\ result.status = "raise"
                  /\ result.calls = 1
                  /\ result.waits = 0)

C3_Witness ==
    /\ pc = "Failed"
    /\ remote[1].kind = "text" /\ TruncatedArray(remote[1].text)
    /\ remote[2] = TextOutcome(GoodText)
    /\ result.exc = "JSONDecodeError" /\ result.calls = 1

\* C4: the call never raises past its own boundary: whatever the remote service
\* does, the call ends with a returned value, not a propagated exception.
C4_NeverRaises == pc \in Terminal => result.status = "return"

FirstIndex(text, tok) ==
    CHOOSE i \in 1..Len(text) : text[i] = tok /\ \A j \in 1..(i - 1) : text[j] # tok
LastIndex(text, tok) ==
    CHOOSE i \in 1..Len(text) : text[i] = tok /\ \A j \in (i + 1)..Len(text) : text[j] # tok
HasBrackets(text) ==
    /\ \E i \in 1..Len(text) : text[i] = "["
    /\ \E i \in 1..Len(text) : text[i] = "]"
\* the text from its first "[" to its last "]", both included
BetweenBrackets(text) == SubSeq(text, FirstIndex(text, "["), LastIndex(text, "]"))

\* C5: whenever the response wraps one JSON array in prose and/or markdown
\* fences, the call returns the array between the first "[" and the last "]".
C5_ExtractsWrappedArray ==
    (/\ pc \in Terminal
     /\ remote[1].kind = "text"
     /\ HasBrackets(remote[1].text)
     /\ JsonLoads(BetweenBrackets(remote[1].text)).ok)
    => (/\ result.status = "return"
        /\ result.value = JsonLoads(BetweenBrackets(remote[1].text)).items)

\* C6: the call either fails or returns only records whose correct_option is one
\* of their option labels.
C6_ReturnsOnlyValidRecords ==
    pc = "Success" =>
        \A i \in 1..Len(result.value) :
            result.value[i].correct_option \in result.value[i].options

Distinct(seq) == \A i, j \in 1..Len(seq) : seq[i] = seq[j] => i = j

\* C9: the payload embeds exactly the last min(50, n) of the n prior questions,
\* in their order, none of the earlier ones, and no exclusion list when n = 0.
C9_ExclusionListBounded ==
    pc # "Building" =>
        LET n == Len(previous_questions)
            m == IF n < 50 THEN n ELSE 50
        IN  /\ payload.has_exclusion <=> n > 0
            /\ Len(payload.exclusion) = m
            /\ \A j \in 1..m : payload.exclusion[j] = previous_questions[n - m + j]
            /\ Distinct(previous_questions) =>
                  \A i \in 1..(n - m) : \A j \in 1..m :
                      payload.exclusion[j] # previous_questions[i]

C9_Witness ==
    /\ pc = "Sent"
    /\ Len(previous_questions) = 80
    /\ Distinct(previous_questions)
    /\ Len(payload.exclusion) = 50
    /\ payload.exclusion[1] = previous_questions[31]

----------------------------------------------------------------------------
(* Properties of the session (checked under Spec) *)

\* C7: each time a quiz is submitted and its scorecard is rendered, the quiz is
\* written to the history file, as its newest entry, whatever way the user
\* left the previous scorecard.
C7_EverySubmittedQuizIsSaved ==
    [][(page = "quiz" /\ page' = "scorecard" /\ run' = "ok")
          => history_file' =
                <<Entry(current_topic', quiz_data', user_answers')>> \o history_file]_vars

\* C8: a failed write of the history file does not abort the scorecard: the
\* page still renders down to its buttons and the answer review.
C8_WriteFailureKeepsScorecard ==
    last_write = "failed" => (page = "scorecard" /\ run = "ok")

\* C10: on the quiz page there is always a question to show.
C10_IndexInRange ==
    page = "quiz" => (0 <= current_index /\ current_index < Len(quiz_data))

====
